---- MODULE Spec2Model ----
(***************************************************************************)
(* Model of the SQL agent backend: the schema and seed bootstrapper        *)
(* (backend/database.py), the query facade (backend/agent.py) and the      *)
(* HTTP service built on them (backend/main.py, backend/config.py).        *)
(*                                                                         *)
(* Conventions                                                             *)
(*   - a Python str that the code inspects character by character (URLs,   *)
(*     paths, query texts) is a sequence of one-character strings;         *)
(*   - a point in time is a number of ticks, TicksPerDay ticks to the day; *)
(*     a calendar date is a day number;                                    *)
(*   - an amount is a number of 1/1000 dollars, so that a value rounded    *)
(*     to two decimals is a multiple of 10;                                *)
(*   - the module `random` is a deterministic generator whose seed is      *)
(*     drawn from RandomSeeds at each seeding run.                         *)
(***************************************************************************)
EXTENDS Integers, Sequences, FiniteSets, TLC

VARIABLES
    db,             \* the database file at the configured path
    initial_db,     \* the content of that file before the first call
    now,            \* the clock, in ticks
    init_log,       \* what the init_database calls made so far did
    pc,             \* the life cycle of the server process
    agent_executor, \* main.py: the global readiness flag / agent handle
    startup_log,    \* what startup_event of the current process did
    response,       \* the last request to POST /query and its answer
    database_url,   \* the connection URL handed to get_database_path
    path_result     \* what get_database_path returned for it

vars == <<db, initial_db, now, init_log, pc, agent_executor, startup_log,
          response, database_url, path_result>>

-----------------------------------------------------------------------------
(* Bounds of the model *)

MaxSeed == 1        \* random seeds 0..MaxSeed
MaxCalls == 2       \* direct calls of init_database per behaviour
MaxTicks == 2       \* the clock advances at most this many ticks
TicksPerDay == 2    \* resolution of the clock
MaxSegs == 3        \* path segments after the URL prefix
MaxQueryLen == 2    \* characters of a query text

-----------------------------------------------------------------------------
(* Python values *)

None == [type |-> "NoneType"]
Str(s) == [type |-> "str", value |-> s]
List(s) == [type |-> "list", value |-> s]

StartsWith(s, p) == Len(s) >= Len(p) /\ SubSeq(s, 1, Len(p)) = p

Drop(s, n) == SubSeq(s, n + 1, Len(s))

\* str.replace(old, ""): every non-overlapping occurrence, left to right
RECURSIVE RemoveAll(_, _)
RemoveAll(s, old) ==
    IF Len(s) < Len(old) \/ Len(old) = 0 THEN s
    ELSE IF StartsWith(s, old) THEN RemoveAll(Drop(s, Len(old)), old)
    ELSE <<Head(s)>> \o RemoveAll(Tail(s), old)

-----------------------------------------------------------------------------
(* backend/database.py: get_database_path *)

SqlitePrefix == <<"s", "q", "l", "i", "t", "e", ":", "/", "/", "/">>

get_database_path(url) ==
    IF StartsWith(url, SqlitePrefix)
    THEN LET path == RemoveAll(url, SqlitePrefix)
         IN  IF StartsWith(path, <<".", "/">>) THEN path
             ELSE IF ~StartsWith(path, <<"/">>) THEN <<".", "/">> \o path
             ELSE path
    ELSE url

\* backend/config.py: the default of Settings.database_url
DefaultDatabaseUrl ==
    SqlitePrefix \o <<".", "/", "s", "a", "l", "e", "s", ".", "d", "b">>

-----------------------------------------------------------------------------
(* backend/database.py: init_database *)

DAYS == 90
MIN_SALES == 5
MAX_SALES == 15
MIN_AMOUNT == 100000
MAX_AMOUNT == 5000000

sales_people_roster == <<
    [name |-> "Alice Johnson", email |-> "alice.johnson@company.com",
     region |-> "North", hire_date |-> "2022-01-15", quota |-> 100000],
    [name |-> "Bob Smith", email |-> "bob.smith@company.com",
     region |-> "South", hire_date |-> "2022-03-20", quota |-> 120000],
    [name |-> "Carol Williams", email |-> "carol.williams@company.com",
     region |-> "East", hire_date |-> "2021-11-10", quota |-> 95000],
    [name |-> "David Brown", email |-> "david.brown@company.com",
     region |-> "West", hire_date |-> "2023-02-01", quota |-> 110000],
    [name |-> "Eva Davis", email |-> "eva.davis@company.com",
     region |-> "North", hire_date |-> "2022-07-15", quota |-> 105000],
    [name |-> "Frank Miller", email |-> "frank.miller@company.com",
     region |-> "South", hire_date |-> "2021-09-05", quota |-> 115000],
    [name |-> "Grace Wilson", email |-> "grace.wilson@company.com",
     region |-> "East", hire_date |-> "2023-01-10", quota |-> 98000],
    [name |-> "Henry Moore", email |-> "henry.moore@company.com",
     region |-> "West", hire_date |-> "2022-05-22", quota |-> 125000] >>

product_categories ==
    <<"Electronics", "Clothing", "Food", "Furniture", "Books", "Toys">>

customer_names ==
    <<"Acme Corp", "Tech Solutions", "Global Industries", "Mega Store",
      "City Retail", "Prime Services", "Elite Group", "Super Market",
      "Best Buy Co", "Top Shelf Inc", "Quality Goods", "Premium Brands">>

\* the generator behind the module `random`: a 16 bit additive generator
\* started from a seed; Random(seed, n) is its n-th output, and the draws
\* below use the high bits
RandomSeeds == 0 .. MaxSeed

Random(seed, n) == (seed * 7919 + 12345 + n * 25173) % 65536

\* the number of the k-th draw made for the day day_offset: a day makes one
\* draw for num_sales and four for each of its sales
DrawOf(day_offset, k) == day_offset * (1 + 4 * MAX_SALES) + k

\* a randint that takes b for an excluded end and makes up for it
RandInt_one_more(rng, a, b) == a + ((rng \div 8) % (b - a + 2))

\* random.randint(a, b): an integer of a..b, both ends included
RandInt(rng, a, b) == a + ((rng \div 8) % (b - a + 1))

\* random.choice(seq)
Choice(rng, seq) == seq[1 + ((rng \div 8) % Len(seq))]

\* random.uniform(a, b): a + (b - a) * random(), random() in [0, 1)
Uniform(rng, a, b) == a + ((b - a) * (rng \div 256)) \div 256

\* the amount left as uniform() returned it
Round2_omitted(x) == x

\* round(x, 2): to the nearest cent, a tie to the even cent
Round2(x) ==
    LET q == x \div 10
        r == x % 10
    IN  IF r < 5 THEN q * 10
        ELSE IF r > 5 THEN (q + 1) * 10
        ELSE IF q % 2 = 0 THEN q * 10 ELSE (q + 1) * 10

\* timedelta(days=n), and datetime.strftime("%Y-%m-%d")
timedelta(days) == days * TicksPerDay

strftime(t) == t \div TicksPerDay

\* cursor.executemany(INSERT ...) into a table with an AUTOINCREMENT key
InsertRows(table, seq, rows) ==
    table \o [i \in 1 .. Len(rows) |-> [id |-> seq + i] @@ rows[i]]

\* SELECT id FROM sales_people
SelectIds(table) == [i \in 1 .. Len(table) |-> table[i].id]

\* a sale that refers to a position of the id list, not to an id
NewSale_by_position(seed, sales_person_ids, sale_date, day_offset, j) ==
    LET r1 == Random(seed, DrawOf(day_offset, 4 * j - 3))
        r2 == Random(seed, DrawOf(day_offset, 4 * j - 2))
        r3 == Random(seed, DrawOf(day_offset, 4 * j - 1))
        r4 == Random(seed, DrawOf(day_offset, 4 * j))
    IN  [sales_person_id |-> RandInt(r1, 0, Len(sales_person_ids) - 1),
         sale_date |-> strftime(sale_date),
         amount |-> Round2(Uniform(r2, MIN_AMOUNT, MAX_AMOUNT)),
         product_category |-> Choice(r3, product_categories),
         customer_name |-> Choice(r4, customer_names)]

\* one pass of the inner loop: the tuple appended to sales_data
NewSale(seed, sales_person_ids, sale_date, day_offset, j) ==
    LET r1 == Random(seed, DrawOf(day_offset, 4 * j - 3))
        r2 == Random(seed, DrawOf(day_offset, 4 * j - 2))
        r3 == Random(seed, DrawOf(day_offset, 4 * j - 1))
        r4 == Random(seed, DrawOf(day_offset, 4 * j))
    IN  [sales_person_id |-> Choice(r1, sales_person_ids),
         sale_date |-> strftime(sale_date),
         amount |-> Round2(Uniform(r2, MIN_AMOUNT, MAX_AMOUNT)),
         product_category |-> Choice(r3, product_categories),
         customer_name |-> Choice(r4, customer_names)]

\* one pass of the outer loop: the sales of the day day_offset
SalesOfDay(seed, sales_person_ids, start_date, day_offset) ==
    LET sale_date == start_date + timedelta(day_offset)
        num_sales == RandInt(Random(seed, DrawOf(day_offset, 0)),
                             MIN_SALES, MAX_SALES)
    IN  [j \in 1 .. num_sales |->
            NewSale(seed, sales_person_ids, sale_date, day_offset, j)]

\* the outer loop, for day_offset in range(90), over the days lo..hi
RECURSIVE GenerateSales(_, _, _, _, _)
GenerateSales(seed, sales_person_ids, start_date, lo, hi) ==
    IF lo > hi THEN <<>>
    ELSE IF lo = hi THEN SalesOfDay(seed, sales_person_ids, start_date, lo)
    ELSE LET mid == (lo + hi) \div 2
         IN  GenerateSales(seed, sales_person_ids, start_date, lo, mid)
             \o GenerateSales(seed, sales_person_ids, start_date, mid + 1, hi)

Faults == {"none", "connect", "insert"}

\* a path at which no file exists yet
EmptyDb ==
    [tables |-> FALSE, sales_people |-> <<>>, people_seq |-> 0,
     sales |-> <<>>, sales_seq |-> 0]

\* the files that can be found at the path before the first call: none, a
\* file whose sales rows were lost, a file whose sales people were deleted
InitialDbs ==
    { EmptyDb,
      [tables |-> TRUE,
       sales_people |-> <<[id |-> 3] @@ sales_people_roster[3]>>,
       people_seq |-> 3, sales |-> <<>>, sales_seq |-> 7],
      [tables |-> TRUE, sales_people |-> <<>>, people_seq |-> 2,
       sales |-> <<[id |-> 1, sales_person_id |-> 2, sale_date |-> 0,
                   amount |-> 123450, product_category |-> "Food",
                   customer_name |-> "Acme Corp"]>>,
       sales_seq |-> 1] }

\* sales_data, the list the two loops build, for every seed, every list of
\* ids the roster can get and every start date of the model
sales_data_of ==
    [seed \in RandomSeeds,
     sales_person_ids \in
        { SelectIds(InsertRows(d.sales_people, d.people_seq,
                               sales_people_roster)) : d \in InitialDbs },
     start_date \in 0 .. MaxTicks |->
        GenerateSales(seed, sales_person_ids, start_date, 0, DAYS - 1)]

\* the seeding branch, taken when SELECT COUNT(*) FROM sales_people is 0
SeedDatabase(d, t, seed) ==
    LET people == InsertRows(d.sales_people, d.people_seq, sales_people_roster)
        sales_person_ids == SelectIds(people)
        start_date == t - timedelta(DAYS)
        sales_data == sales_data_of[seed, sales_person_ids, start_date]
    IN  [tables |-> TRUE,
         sales_people |-> people,
         people_seq |-> d.people_seq + Len(sales_people_roster),
         sales |-> InsertRows(d.sales, d.sales_seq, sales_data),
         sales_seq |-> d.sales_seq + Len(sales_data)]

\* an init_database that looks at the sales table to decide whether to seed
init_database_counts_sales(d, t, seed, fault) ==
    IF fault = "connect" THEN [db |-> d, outcome |-> "raised"]
    ELSE IF fault = "insert"
    THEN [db |-> [d EXCEPT !.tables = TRUE], outcome |-> "raised"]
    ELSE IF Len(d.sales) = 0
    THEN [db |-> SeedDatabase(d, t, seed), outcome |-> "seeded"]
    ELSE [db |-> [d EXCEPT !.tables = TRUE], outcome |-> "skipped"]

\* init_database(db_path) called at time t; fault names the statement at
\* which the storage layer raises ("none": it does not).  The result is the
\* file afterwards and how the call ended.
init_database(d, t, seed, fault) ==
    IF fault = "connect" THEN [db |-> d, outcome |-> "raised"]
    ELSE IF fault = "insert"
    THEN [db |-> [d EXCEPT !.tables = TRUE], outcome |-> "raised"]
    ELSE IF Len(d.sales_people) = 0
    THEN [db |-> SeedDatabase(d, t, seed), outcome |-> "seeded"]
    ELSE [db |-> [d EXCEPT !.tables = TRUE], outcome |-> "skipped"]

NoCall == [calls |-> 0, returned |-> 0, outcome |-> "none", seeded_at |-> -1]

\* the log after one more call, made at time t, that ended as r says
Logged(log, t, r) ==
    [calls |-> log.calls + 1,
     returned |-> IF r.outcome = "raised" THEN log.returned
                  ELSE log.returned + 1,
     outcome |-> r.outcome,
     seeded_at |-> IF r.outcome = "seeded" THEN t ELSE log.seeded_at]

-----------------------------------------------------------------------------
(* backend/agent.py *)

\* the truth value of an Optional[str]: None and "" are false
Truthy(v) == v # None /\ v.value # ""

\* a or b
Or(a, b) == IF Truthy(a) THEN a ELSE b

Agent(url) == [type |-> "AgentExecutor", value |-> url]

\* a create_sql_agent_executor that leaves the credential to the library
create_sql_agent_executor_unchecked(url, settings_key, env_key, fault) ==
    IF fault = "from_uri" THEN [agent |-> None, raised |-> "SQLDatabase"]
    ELSE IF fault = "llm" THEN [agent |-> None, raised |-> "ChatOpenAI"]
    ELSE IF fault = "agent" THEN [agent |-> None, raised |-> "create_sql_agent"]
    ELSE [agent |-> Agent(url), raised |-> "none"]

\* create_sql_agent_executor(database_url) under the given settings and
\* environment; fault names the library call that raises ("none": none does)
create_sql_agent_executor(url, settings_key, env_key, fault) ==
    IF fault = "from_uri" THEN [agent |-> None, raised |-> "SQLDatabase"]
    ELSE LET api_key == Or(settings_key, env_key)
         IN  IF ~Truthy(api_key) THEN [agent |-> None, raised |-> "ValueError"]
             ELSE IF fault = "llm" THEN [agent |-> None, raised |-> "ChatOpenAI"]
             ELSE IF fault = "agent"
             THEN [agent |-> None, raised |-> "create_sql_agent"]
             ELSE [agent |-> Agent(url), raised |-> "none"]

AgentFaults == {"none", "from_uri", "llm", "agent"}

ApiKeys == {None, Str(""), Str("sk-test")}

\* a Python dict, as the set of its items
Dict(items) == [type |-> "dict", value |-> items]

HasKey(m, k) == \E it \in m.value : it.key = k

\* dict.get(key, default)
Get(m, k, default) ==
    IF HasKey(m, k) THEN (CHOOSE it \in m.value : it.key = k).val
    ELSE default

\* what agent.invoke can do: return a value or raise an exception
Outputs == {Str("42 sales today"), Str("")}

StepLists == {List(<<"sql_db_list_tables", "sql_db_query">>),
              List(<<"sql_db_query", "sql_db_list_tables">>)}

AgentOutcomes ==
    { [kind |-> "return",
       value |-> Dict({[key |-> "output", val |-> t],
                       [key |-> "intermediate_steps", val |-> s]})] :
          t \in Outputs, s \in StepLists }
    \cup { [kind |-> "return",
             value |-> Dict({[key |-> "output", val |-> Str("7 regions")]})] }
    \cup { [kind |-> "return", value |-> Dict({})],
           [kind |-> "return", value |-> Str("not a mapping")] }
    \cup { [kind |-> "raise", value |-> Str(m)] :
              m \in {"rate limit exceeded", ""} }

\* a query_database that tries a second time when agent.invoke raises
query_database_retrying(agent, query, outcome) ==
    LET invoked == <<[input |-> query]>>
    IN  IF outcome.kind = "raise"
        THEN [returned |-> [success |-> FALSE, error |-> outcome.value,
                            result |-> None],
              invoked |-> invoked \o invoked]
        ELSE IF outcome.value.type # "dict"
        THEN [returned |-> [success |-> FALSE,
                            error |-> Str("object has no attribute 'get'"),
                            result |-> None],
              invoked |-> invoked]
        ELSE [returned |->
                  [success |-> TRUE,
                   result |-> Get(outcome.value, "output",
                                  Str("No result returned")),
                   intermediate_steps |->
                       Get(outcome.value, "intermediate_steps", List(<<>>))],
              invoked |-> invoked]

\* a query_database that answers without the steps the agent reported
query_database_without_steps(agent, query, outcome) ==
    LET invoked == <<[input |-> query]>>
    IN  IF outcome.kind = "raise"
        THEN [returned |-> [success |-> FALSE, error |-> outcome.value,
                            result |-> None],
              invoked |-> invoked]
        ELSE IF outcome.value.type # "dict"
        THEN [returned |-> [success |-> FALSE,
                            error |-> Str("object has no attribute 'get'"),
                            result |-> None],
              invoked |-> invoked]
        ELSE [returned |->
                  [success |-> TRUE,
                   result |-> Get(outcome.value, "output",
                                  Str("No result returned")),
                   intermediate_steps |-> List(<<>>)],
              invoked |-> invoked]

\* query_database(agent, query): the dict it returns, and the inputs it
\* handed to agent.invoke on the way
query_database(agent, query, outcome) ==
    LET invoked == <<[input |-> query]>>
    IN  IF outcome.kind = "raise"
        THEN [returned |-> [success |-> FALSE, error |-> outcome.value,
                            result |-> None],
              invoked |-> invoked]
        ELSE IF outcome.value.type # "dict"
        THEN [returned |-> [success |-> FALSE,
                            error |-> Str("object has no attribute 'get'"),
                            result |-> None],
              invoked |-> invoked]
        ELSE [returned |->
                  [success |-> TRUE,
                   result |-> Get(outcome.value, "output",
                                  Str("No result returned")),
                   intermediate_steps |->
                       Get(outcome.value, "intermediate_steps", List(<<>>))],
              invoked |-> invoked]

-----------------------------------------------------------------------------
(* backend/main.py *)

\* the characters str.strip() removes
Whitespace == {" ", "\t", "\n", "\r"}

RECURSIVE lstrip(_)
lstrip(s) ==
    IF s # <<>> /\ Head(s) \in Whitespace THEN lstrip(Tail(s)) ELSE s

RECURSIVE rstrip(_)
rstrip(s) ==
    IF s # <<>> /\ s[Len(s)] \in Whitespace
    THEN rstrip(SubSeq(s, 1, Len(s) - 1)) ELSE s

\* a check of the text as it came
strip_omitted(s) == s

\* str.strip()
strip(s) == rstrip(lstrip(s))

\* the model QueryResponse, with the defaults of its optional fields
QueryResponse(success, result, error, intermediate_steps) ==
    [success |-> success, result |-> result, error |-> error,
     intermediate_steps |-> intermediate_steps]

\* HTTPException(status_code, detail)
HTTPException(status_code, detail) ==
    [status |-> status_code, body |-> [detail |-> detail], invoked |-> <<>>]

\* an execute_query that validates the text before it looks at the flag
execute_query_validating_first(flag, query, outcome) ==
    IF strip(query) = <<>> THEN HTTPException(400, "Query cannot be empty")
    ELSE IF flag = None THEN HTTPException(503, "Agent not initialized")
    ELSE LET call == query_database(flag, query, outcome)
             result == call.returned
         IN  IF result.success
             THEN [status |-> 200,
                   body |-> QueryResponse(TRUE, result.result, None,
                               IF "intermediate_steps" \in DOMAIN result
                               THEN result.intermediate_steps ELSE None),
                   invoked |-> call.invoked]
             ELSE [status |-> 200,
                   body |-> QueryResponse(FALSE, None, result.error, None),
                   invoked |-> call.invoked]

\* execute_query(request) with the flag as it is; outcome is what
\* agent.invoke does if it is called
execute_query(flag, query, outcome) ==
    IF flag = None THEN HTTPException(503, "Agent not initialized")
    ELSE IF strip(query) = <<>> THEN HTTPException(400, "Query cannot be empty")
    ELSE LET call == query_database(flag, query, outcome)
             result == call.returned
         IN  IF result.success
             THEN [status |-> 200,
                   body |-> QueryResponse(TRUE, result.result, None,
                               IF "intermediate_steps" \in DOMAIN result
                               THEN result.intermediate_steps ELSE None),
                   invoked |-> call.invoked]
             ELSE [status |-> 200,
                   body |-> QueryResponse(FALSE, None, result.error, None),
                   invoked |-> call.invoked]

\* the characters of the query texts of the model
QueryChars == {" ", "q"}

Queries == UNION { [1 .. n -> QueryChars] : n \in 0 .. MaxQueryLen }

\* startup_event() of a process whose flag is flag: the file afterwards,
\* the flag afterwards and the exception that left the handler, if any
startup_event(flag, d, t, url, seed, fault, settings_key, env_key, agent_fault) ==
    LET db_path == get_database_path(url)
        r == init_database(d, t, seed, fault)
        a == create_sql_agent_executor(url, settings_key, env_key, agent_fault)
    IN  IF r.outcome = "raised"
        THEN [db_path |-> db_path, init |-> r, agent_executor |-> flag,
              raised |-> "init_database"]
        ELSE IF a.raised # "none"
        THEN [db_path |-> db_path, init |-> r, agent_executor |-> flag,
              raised |-> a.raised]
        ELSE [db_path |-> db_path, init |-> r, agent_executor |-> a.agent,
              raised |-> "none"]

NoStartup == [db_path |-> None, fault |-> "none", credential |-> None,
              agent_fault |-> "none", raised |-> "not run"]

NoResponse == [query |-> <<>>, ready |-> FALSE, outcome |-> None,
               status |-> 0, body |-> None, invoked |-> <<>>]

-----------------------------------------------------------------------------
(* Operations *)

\* a direct call of init_database on the file at the configured path
InitDatabaseCall ==
    /\ init_log.calls < MaxCalls
    /\ \E seed \in RandomSeeds, fault \in Faults :
          LET r == init_database(db, now, seed, fault)
          IN  /\ db' = r.db
              /\ init_log' = Logged(init_log, now, r)
    /\ UNCHANGED <<initial_db, now, pc, agent_executor, startup_log, response,
                   database_url, path_result>>

\* time passes
Tick ==
    /\ now < timedelta(DAYS) + MaxTicks
    /\ now' = now + 1
    /\ UNCHANGED <<db, initial_db, init_log, pc, agent_executor, startup_log,
                   response, database_url, path_result>>

\* startup_event of a freshly created process
StartupEvent ==
    /\ pc = "imported"
    /\ \E seed \in RandomSeeds, fault \in Faults, settings_key \in ApiKeys,
          env_key \in ApiKeys, agent_fault \in AgentFaults :
          LET s == startup_event(agent_executor, db, now, database_url, seed,
                                 fault, settings_key, env_key, agent_fault)
          IN  /\ db' = s.init.db
              /\ init_log' = Logged(init_log, now, s.init)
              /\ agent_executor' = s.agent_executor
              /\ pc' = IF s.raised = "none" THEN "serving" ELSE "aborted"
              /\ startup_log' =
                    [db_path |-> Str(s.db_path), fault |-> fault,
                     credential |-> IF settings_key \in {None, Str("")}
                                    THEN env_key ELSE settings_key,
                     agent_fault |-> agent_fault, raised |-> s.raised]
    /\ UNCHANGED <<initial_db, now, response, database_url, path_result>>

\* POST /query
ExecuteQuery ==
    /\ pc \in {"imported", "serving"}
    /\ \E query \in Queries, outcome \in AgentOutcomes :
          LET r == execute_query(agent_executor, query, outcome)
          IN  response' = [query |-> query,
                           ready |-> agent_executor # None,
                           outcome |-> IF r.invoked = <<>> THEN None
                                       ELSE outcome,
                           status |-> r.status, body |-> r.body,
                           invoked |-> r.invoked]
    /\ UNCHANGED <<db, initial_db, now, init_log, pc, agent_executor,
                   startup_log, database_url, path_result>>

\* get_database_path applied to the configured URL
ResolvePath ==
    /\ path_result' = Str(get_database_path(database_url))
    /\ UNCHANGED <<db, initial_db, now, init_log, pc, agent_executor,
                   startup_log, response, database_url>>

Segments ==
    { <<".", "/">>, <<"/">>, <<"d", "a", "t", "a", "/">>,
      <<"a", "b", "s", "/">>, <<"s", "a", "l", "e", "s", ".", "d", "b">>,
      SqlitePrefix }

RECURSIVE PathsOf(_)
PathsOf(n) ==
    IF n = 0 THEN {<<>>}
    ELSE LET shorter == PathsOf(n - 1)
         IN  shorter \cup { p \o s : p \in shorter, s \in Segments }

Urls == { SqlitePrefix \o p : p \in PathsOf(MaxSegs) } \cup PathsOf(MaxSegs)

\* the configuration names another database
Configure ==
    /\ \E url \in Urls : database_url' = url
    /\ path_result' = None
    /\ UNCHANGED <<db, initial_db, now, init_log, pc, agent_executor,
                   startup_log, response>>

-----------------------------------------------------------------------------
(* Specifications *)

InitCommon ==
    /\ db \in InitialDbs
    /\ initial_db = db
    /\ now = timedelta(DAYS)
    /\ init_log = NoCall
    /\ pc = "imported"
    /\ agent_executor = None
    /\ startup_log = NoStartup
    /\ response = NoResponse
    /\ path_result = None

\* the service: one process, from its creation on; it finds the file a
\* former process may have left, runs startup_event once and answers queries
Init == InitCommon /\ database_url = DefaultDatabaseUrl

Next == StartupEvent \/ ExecuteQuery

Spec == Init /\ [][Next]_vars

\* the bootstrapper called directly, any number of times
NextDb == InitDatabaseCall \/ Tick

SpecDb == Init /\ [][NextDb]_vars

\* the path extraction applied to the URLs of the configuration
InitPath == InitCommon /\ database_url \in Urls

NextPath == ResolvePath \/ Configure

SpecPath == InitPath /\ [][NextPath]_vars

-----------------------------------------------------------------------------
(* Properties *)

Handled == response.status # 0

\* a text that is empty or made of blanks, tabs and line ends only
Blank(query) ==
    \A i \in 1 .. Len(query) : query[i] \in {" ", "\t", "\n", "\r"}

SalesOn(day) == { i \in 1 .. Len(db.sales) : db.sales[i].sale_date = day }

\* C1: a call of init_database made while sales_people holds a row inserts
\* nothing into sales_people nor into sales, whatever sales holds; and on a
\* path that was empty at first, sales_people holds the 8 rows of the roster
\* after every number of calls of which one has returned.
C1_SeedsOnlyWhenEmpty ==
    /\ [][(init_log'.calls = init_log.calls + 1 /\ Len(db.sales_people) >= 1)
            => (db'.sales_people = db.sales_people /\ db'.sales = db.sales)]_vars
    /\ []((initial_db = EmptyDb /\ init_log.returned >= 1)
            => Len(db.sales_people) = 8)

C1_Witness ==
    /\ initial_db = EmptyDb
    /\ init_log.returned >= 2
    /\ init_log.outcome = "skipped"
    /\ Len(db.sales_people) = 8

\* C2: on a path that was empty at first, every row of sales refers to the
\* id of a row of sales_people.
C2_ReferentialIntegrity ==
    initial_db = EmptyDb =>
        \A i \in 1 .. Len(db.sales) :
            \E j \in 1 .. Len(db.sales_people) :
                db.sales_people[j].id = db.sales[i].sales_person_id

C2_Witness ==
    /\ initial_db = EmptyDb
    /\ init_log.seeded_at # -1
    /\ \A j \in 1 .. Len(db.sales_people) :
          \E i \in 1 .. Len(db.sales) :
              db.sales[i].sales_person_id = db.sales_people[j].id

\* C3: a request handled while the flag is unset is answered 503 "Agent not
\* initialized", whatever its text, without a call of the agent; the answer
\* is neither the 400 of an invalid text nor a failure envelope.
C3_NotReady ==
    (Handled /\ ~response.ready) =>
        /\ response.status = 503
        /\ response.body = [detail |-> "Agent not initialized"]
        /\ response.invoked = <<>>
        /\ response.status # 400
        /\ "success" \notin DOMAIN response.body

C3_Witness ==
    /\ Handled
    /\ ~response.ready
    /\ Blank(response.query)
    /\ response.status = 503

\* C4: the flag is set only in a process whose startup_event saw
\* init_database return and create_sql_agent_executor return an agent; when
\* the schema or the seeding fails, the credential is missing or the agent
\* cannot be built, the error leaves startup_event and the flag stays unset.
C4_ReadyOnlyAfterStartup ==
    /\ agent_executor # None =>
          /\ pc = "serving"
          /\ startup_log.raised = "none"
          /\ startup_log.fault = "none"
          /\ Truthy(startup_log.credential)
          /\ startup_log.agent_fault = "none"
    /\ (/\ startup_log # NoStartup
        /\ \/ startup_log.fault # "none"
           \/ ~Truthy(startup_log.credential)
           \/ startup_log.agent_fault # "none") =>
          /\ agent_executor = None
          /\ pc = "aborted"
          /\ startup_log.raised \notin {"none", "not run"}

C4_Witness ==
    /\ pc = "aborted"
    /\ agent_executor = None
    /\ startup_log.fault = "none"
    /\ startup_log.agent_fault = "none"
    /\ ~Truthy(startup_log.credential)
    /\ startup_log.raised = "ValueError"

\* C5: when agent.invoke raises, the answer is the failure envelope, success
\* false, error the text of the exception, result null, sent as an ordinary
\* answer, and the agent was invoked once for the query.
C5_FailureEnvelope ==
    (Handled /\ response.outcome # None /\ response.outcome.kind = "raise") =>
        /\ response.status = 200
        /\ response.body.success = FALSE
        /\ response.body.error # None
        /\ response.body.error.type = "str"
        /\ response.body.error = response.outcome.value
        /\ response.body.result = None
        /\ response.invoked = <<[input |-> response.query]>>

C5_Witness ==
    /\ Handled
    /\ response.outcome # None
    /\ response.outcome.kind = "raise"
    /\ response.body.success = FALSE
    /\ Len(response.invoked) = 1

\* C6 as stated: every empty or whitespace-only text is answered with the
\* invalid-input error, without a call of the agent.
C6_AsStated ==
    (Handled /\ Blank(response.query)) =>
        (response.status = 400 /\ response.invoked = <<>>)

\* C6: an empty or whitespace-only text never reaches the agent; it is
\* answered 400 "Query cannot be empty" when the flag is set and 503 "Agent
\* not initialized" when it is not.
C6_BlankRejected ==
    (Handled /\ Blank(response.query)) =>
        /\ response.invoked = <<>>
        /\ response.ready =>
              /\ response.status = 400
              /\ response.body = [detail |-> "Query cannot be empty"]
        /\ ~response.ready => response.status = 503

C6_Witness ==
    /\ Handled
    /\ response.ready
    /\ Len(response.query) >= 1
    /\ Blank(response.query)
    /\ response.status = 400

ReturnedBoth ==
    /\ Handled
    /\ response.outcome # None
    /\ response.outcome.kind = "return"
    /\ response.outcome.value.type = "dict"
    /\ HasKey(response.outcome.value, "output")
    /\ HasKey(response.outcome.value, "intermediate_steps")

\* C7 as stated: the answer and the steps of the agent are carried unchanged
\* in the fields result and steps of the success envelope.
C7_AsStated ==
    ReturnedBoth =>
        /\ response.body.success = TRUE
        /\ response.body.result = Get(response.outcome.value, "output", None)
        /\ "steps" \in DOMAIN response.body
        /\ response.body["steps"] =
              Get(response.outcome.value, "intermediate_steps", None)

\* C7: the answer and the steps of the agent are carried unchanged, the
\* steps in their order, in the fields result and intermediate_steps of the
\* success envelope.
C7_SuccessEnvelope ==
    ReturnedBoth =>
        /\ response.status = 200
        /\ response.body.success = TRUE
        /\ response.body.result = Get(response.outcome.value, "output", None)
        /\ response.body.intermediate_steps =
              Get(response.outcome.value, "intermediate_steps", None)
        /\ response.body.error = None

C7_Witness ==
    /\ ReturnedBoth
    /\ response.body.result = Str("42 sales today")
    /\ response.body.intermediate_steps =
          List(<<"sql_db_list_tables", "sql_db_query">>)

\* what C8 says get_database_path returns for the URL scheme:///P
PathAsStated(P) ==
    IF StartsWith(P, <<".", "/">>) THEN P
    ELSE IF StartsWith(P, <<"/">>) THEN P
    ELSE <<".", "/">> \o P

\* C8: for every URL scheme:///P the path is P when P starts with "./" or
\* with "/", and "./" followed by P otherwise.
C8_AsStated ==
    (path_result # None /\ StartsWith(database_url, SqlitePrefix)) =>
        path_result =
            Str(PathAsStated(Drop(database_url, Len(SqlitePrefix))))

\* C9: after a seeding run on a path that was empty at first, every one of
\* the 90 days before the day of the call has between 5 and 15 rows of
\* sales, and no row of sales is dated outside these 90 days.
C9_DailyCounts ==
    (initial_db = EmptyDb /\ init_log.seeded_at # -1) =>
        LET call_date == strftime(init_log.seeded_at)
            window == (call_date - 90) .. (call_date - 1)
        IN  /\ \A day \in window :
                  /\ Cardinality(SalesOn(day)) >= 5
                  /\ Cardinality(SalesOn(day)) <= 15
            /\ \A i \in 1 .. Len(db.sales) : db.sales[i].sale_date \in window
            /\ Cardinality({ db.sales[i].sale_date :
                                i \in 1 .. Len(db.sales) }) = 90

C9_Witness ==
    /\ initial_db = EmptyDb
    /\ init_log.seeded_at # -1
    /\ \E day \in 0 .. MaxTicks + 90 : Cardinality(SalesOn(day)) = 5
    /\ \E day \in 0 .. MaxTicks + 90 : Cardinality(SalesOn(day)) = 15

\* C10: every row of sales that seeding produced has an amount between
\* 100.00 and 5000.00, both included, that is a whole number of cents.
C10_AmountBounds ==
    initial_db = EmptyDb =>
        \A i \in 1 .. Len(db.sales) :
            /\ db.sales[i].amount >= 100 * 1000
            /\ db.sales[i].amount <= 5000 * 1000
            /\ db.sales[i].amount % 10 = 0

C10_Witness ==
    /\ initial_db = EmptyDb
    /\ init_log.seeded_at # -1
    /\ \E i \in 1 .. Len(db.sales) : db.sales[i].amount < 120 * 1000
    /\ \E i \in 1 .. Len(db.sales) : db.sales[i].amount > 4980 * 1000

====
